---- MODULE Spec2Model ----
(***************************************************************************)
(* FinSight Invoice Analyzer (src/main.py): the POST /analyze handler      *)
(* analyze_invoice, modelled as a state machine.  Each in-flight request   *)
(* occupies a slot; a slot's variables are the handler's local variables   *)
(* and its position in the handler.  The handler is a coroutine on one     *)
(* event loop: it is suspended only at "await file.read()" (line 37), and  *)
(* the code before and after that point runs without interleaving.         *)
(*                                                                         *)
(* Text is modelled as sequences of one-character strings, so that the     *)
(* string operations of the pipeline (equality, str.replace, to_numeric)   *)
(* are computed character by character.  Numbers are fixed-point integers  *)
(* with Scale decimal digits together with the numpy dtype (int64 or       *)
(* float64) pandas gives them; floating-point rounding is not modelled.    *)
(*                                                                         *)
(* Third-party behaviour the model relies on (pandas 1.x/2.x, numpy,       *)
(* Starlette):                                                             *)
(*   - HTTPException is a subclass of Exception;                           *)
(*   - pd.DataFrame(rows, columns=h) raises ValueError when the widest row *)
(*     does not have len(h) cells, and pads shorter rows with None;        *)
(*   - df[label] is a DataFrame, without .str, when label is duplicated;   *)
(*   - pd.to_numeric(errors='coerce') gives int64 when every value is an   *)
(*     integer literal (and for an empty Series), float64 otherwise;       *)
(*   - Series.sum() of an int64 Series is a numpy.int64, which json.dumps  *)
(*     (JSONResponse.render) rejects with TypeError; numpy.float64 is a    *)
(*     Python float and is rendered.                                       *)
(* Inputs outside the model: header rows with "Item" duplicated, totals    *)
(* with exponents, whitespace, "inf" or "nan".                             *)
(***************************************************************************)
EXTENDS Integers, Sequences, FiniteSets, TLC

\* ------------------------------------------------------------------ bounds
\* Number of request slots (requests in flight at once).
NumSlots == 2
\* Largest number of data rows of the enumerated invoice tables.
MaxRows == 2
\* Largest number of pages of the enumerated multi-page documents.
MaxPages == 2
\* Decimal digits kept by the fixed-point representation of numbers.
Scale == 2

Slots == 1 .. NumSlots

\* -------------------------------------------------------------------- text
\* An absent cell (Python None / NaN); never equal to any text.
None == <<"None">>

Str_Item == <<"I", "t", "e", "m">>
Str_Total == <<"T", "o", "t", "a", "l">>
Str_Contraption == <<"C", "o", "n", "t", "r", "a", "p", "t", "i", "o", "n">>
Str_Empty == <<>>

Digits == {"0", "1", "2", "3", "4", "5", "6", "7", "8", "9"}

DigitVal(c) ==
    CASE c = "0" -> 0 [] c = "1" -> 1 [] c = "2" -> 2 [] c = "3" -> 3
      [] c = "4" -> 4 [] c = "5" -> 5 [] c = "6" -> 6 [] c = "7" -> 7
      [] c = "8" -> 8 [] c = "9" -> 9

RECURSIVE Pow10(_)
Pow10(n) == IF n = 0 THEN 1 ELSE 10 * Pow10(n - 1)

\* The value of a sequence of digits read as a decimal numeral.
RECURSIVE DigitsToNat(_)
DigitsToNat(ds) ==
    IF ds = <<>> THEN 0
    ELSE 10 * DigitsToNat(SubSeq(ds, 1, Len(ds) - 1)) + DigitVal(ds[Len(ds)])

\* Series.str.replace(ch, '', regex=False) on one cell: every occurrence of
\* ch is removed; a cell that is not text stays missing.
str_replace(cell, ch) ==
    IF cell = None THEN None ELSE SelectSeq(cell, LAMBDA c : c # ch)

NaN == [nan |-> TRUE, isfloat |-> TRUE, v |-> 0]

\* The positions of "." in s.
DotPositions(s) == {i \in 1 .. Len(s) : s[i] = "."}

\* pd.to_numeric(..., errors='coerce') on one cell: an optional sign, digits
\* and at most one decimal point; anything else, the empty string and a
\* missing cell become NaN.  An integer literal is an int, a literal with a
\* decimal point is a float.
ParseUnsigned(s) ==
    LET dots == DotPositions(s)
        p == IF dots = {} THEN Len(s) + 1 ELSE CHOOSE i \in dots : TRUE
        ip == SubSeq(s, 1, p - 1)
        fp == SubSeq(s, p + 1, Len(s))
        fpad == [i \in 1 .. Scale |-> IF i <= Len(fp) THEN fp[i] ELSE "0"]
    IN  IF \/ Cardinality(dots) > 1
           \/ \E i \in 1 .. Len(s) : s[i] \notin Digits \cup {"."}
           \/ Len(ip) + Len(fp) = 0
        THEN NaN
        ELSE [nan |-> FALSE, isfloat |-> dots # {},
              v |-> DigitsToNat(ip) * Pow10(Scale) + DigitsToNat(fpad)]

to_numeric_cell(cell) ==
    IF cell = None \/ cell = Str_Empty THEN NaN
    ELSE IF cell[1] = "-"
         THEN LET u == ParseUnsigned(Tail(cell))
              IN  IF u.nan THEN NaN ELSE [u EXCEPT !.v = 0 - u.v]
         ELSE IF cell[1] = "+" THEN ParseUnsigned(Tail(cell))
         ELSE ParseUnsigned(cell)

\* ----------------------------------------------------------------- results
\* What a step of the handler produces: a value, or the exception it raises.
NoExc == [type |-> "none", status |-> 0, msg |-> ""]

HTTPException(status, msg) == [type |-> "HTTPException", status |-> status, msg |-> msg]

Raised(type, msg) == [type |-> type, status |-> 0, msg |-> msg]

Ok(val) == [ok |-> TRUE, val |-> val, exc |-> NoExc]

Fail(e) == [ok |-> FALSE, val |-> <<>>, exc |-> e]

\* str(e): Starlette renders an HTTPException as "<status>: <detail>"; any
\* other exception as its message.
StrExc(e) == [code |-> e.status, msg |-> e.msg]

NoCause == [code |-> 0, msg |-> ""]

NoSum == [dtype |-> "none", v |-> 0]

\* The response delivered to the client.
ErrorResponse(status, detail, cause) ==
    [status |-> status, detail |-> detail, cause |-> cause, sum |-> NoSum]

SumResponse(s) == [status |-> 200, detail |-> "", cause |-> NoCause, sum |-> s]

\* ---------------------------------------------------------------- pipeline
\* Line 32: the declared content type must be exactly "application/pdf".
ContentTypeOkLoose(ct) == ct \in {"application/pdf", "application/octet-stream"}

ContentTypeOk(ct) == ct = "application/pdf"

\* Line 33.
InvalidFileType ==
    ErrorResponse(400, "Invalid file type. Please upload a PDF.", NoCause)

\* Line 42: pdfplumber.open raises on bytes that are not a PDF.
open_pdf(bytes) ==
    IF bytes.valid THEN Ok(bytes.pages)
    ELSE Fail(Raised("PDFSyntaxError", "No /Root object! - Is this really a PDF?"))

\* Lines 41-46: the tables of every page, accumulated in page order; a page
\* without tables adds nothing and the scan goes on.
RECURSIVE extract_all(_, _)
extract_all(acc, pages) ==
    IF pages = <<>> THEN acc
    ELSE LET tables == Head(pages)
         IN  extract_all(IF tables # <<>> THEN acc \o tables ELSE acc, Tail(pages))

\* Lines 48-49.
check_tables(tabs) ==
    IF tabs = <<>>
    THEN Fail(HTTPException(404, "No tables found in the PDF."))
    ELSE Ok(tabs)

\* Line 54: all_tables[0].
LastTable(tabs) == tabs[Len(tabs)]

FirstTable(tabs) == tabs[1]

MaxOf(S) == IF S = {} THEN 0 ELSE CHOOSE m \in S : \A x \in S : x <= m

\* Line 54: pd.DataFrame(table[1:], columns=table[0]).  The first row is the
\* header; rows shorter than the widest row are padded with None; the widest
\* row must have as many cells as the header (always so for the tables
\* extract_tables gives, whose rows have the same number of cells).
DataFrame(table) ==
    IF table = <<>> THEN Fail(Raised("IndexError", "list index out of range"))
    ELSE LET columns == table[1]
             data == Tail(table)
             width == MaxOf({Len(data[i]) : i \in 1 .. Len(data)})
         IN  IF data # <<>> /\ width # Len(columns)
             THEN Fail(Raised("ValueError", "columns passed, passed data had other columns"))
             ELSE Ok([columns |-> columns,
                      rows |-> [i \in 1 .. Len(data) |->
                                  [j \in 1 .. Len(columns) |->
                                     IF j <= Len(data[i]) THEN data[i][j] ELSE None]]])

NoFrame == [columns |-> <<>>, rows |-> <<>>]

\* A column that has not been converted: dtype object.
NoSeries == [dtype |-> "object", vals |-> <<>>]

NoFiltered == [columns |-> <<>>, rows |-> <<>>, total |-> NoSeries]

\* label in df.columns
HasColumn(df, label) == \E j \in 1 .. Len(df.columns) : df.columns[j] = label

ColumnPositions(df, label) == {j \in 1 .. Len(df.columns) : df.columns[j] = label}

\* Lines 58-59.
check_columns(df) ==
    IF ~HasColumn(df, Str_Item) \/ ~HasColumn(df, Str_Total)
    THEN Fail(HTTPException(400, "PDF does not contain 'Item' and/or 'Total' columns."))
    ELSE Ok(df)

\* df[label] of one row, for a label that names one column.
Cell(df, row, label) == row[CHOOSE j \in ColumnPositions(df, label) : TRUE]

\* Line 62: the comparison df['Item'] == 'Contraption' on one cell.
ItemMatchesLoose(cell) ==
    /\ cell # None
    /\ LET Lower(c) == IF c = "C" THEN "c" ELSE c
           trimmed == SelectSeq(cell, LAMBDA c : c # " ")
       IN  [i \in 1 .. Len(trimmed) |-> Lower(trimmed[i])]
             = [i \in 1 .. Len(Str_Contraption) |-> Lower(Str_Contraption[i])]

ItemMatches(cell) == cell = Str_Contraption

\* Line 62: df[df['Item'] == 'Contraption'].copy()
filter_rows(df) ==
    [columns |-> df.columns,
     rows |-> SelectSeq(df.rows, LAMBDA row : ItemMatches(Cell(df, row, Str_Item))),
     total |-> NoSeries]

\* Lines 65-66 on one cell: "$" removed, then "," removed.
clean_cell(cell) == str_replace(str_replace(cell, "$"), ",")

\* Line 67 on one cell.
coerce_cell_zero(cell) ==
    IF to_numeric_cell(cell).nan THEN [nan |-> FALSE, isfloat |-> FALSE, v |-> 0]
    ELSE to_numeric_cell(cell)

coerce_cell(cell) == to_numeric_cell(cell)

\* The dtype to_numeric gives a Series: int64 when every value is an integer
\* (also when there is none), float64 as soon as one is a float or NaN.
DtypeOf(vals) ==
    IF \E i \in 1 .. Len(vals) : vals[i].nan \/ vals[i].isfloat
    THEN "float64" ELSE "int64"

\* Lines 65-70: contraption_df['Total'] cleaned, converted and the rows with
\* NaN dropped.  With "Total" duplicated, contraption_df['Total'] is a
\* DataFrame and .str raises AttributeError.
clean_totals(cdf) ==
    IF Cardinality(ColumnPositions(cdf, Str_Total)) > 1
    THEN Fail(Raised("AttributeError", "'DataFrame' object has no attribute 'str'"))
    ELSE LET Value(row) == coerce_cell(clean_cell(Cell(cdf, row, Str_Total)))
             vals == [i \in 1 .. Len(cdf.rows) |-> Value(cdf.rows[i])]
         IN  Ok([columns |-> cdf.columns,
                 rows |-> SelectSeq(cdf.rows, LAMBDA row : ~Value(row).nan),
                 total |-> [dtype |-> DtypeOf(vals),
                            vals |-> SelectSeq(vals, LAMBDA x : ~x.nan)]])

RECURSIVE SumVals(_)
SumVals(vals) == IF vals = <<>> THEN 0 ELSE Head(vals).v + SumVals(Tail(vals))

\* Line 73: contraption_df['Total'].sum(); the scalar has the dtype of the
\* Series.
series_sum(series) == [dtype |-> series.dtype, v |-> SumVals(series.vals)]

\* Line 76: JSONResponse(content={"sum": total_sum}) renders the body with
\* json.dumps, which rejects numpy.int64.
json_response(s) ==
    IF s.dtype = "int64"
    THEN Fail(Raised("TypeError", "Object of type int64 is not JSON serializable"))
    ELSE Ok(SumResponse(s))

\* Lines 78-80: any exception raised inside the try block, HTTPException
\* included, becomes a 500 whose detail embeds str(e).
handle_exception(e) ==
    ErrorResponse(500, "An error occurred during processing: ", StrExc(e))

\* ------------------------------------------------------------------ inputs
Str_contraption == <<"c", "o", "n", "t", "r", "a", "p", "t", "i", "o", "n">>
Str_LeadingSpace == <<" ">> \o Str_Contraption
Str_TrailingSpace == Str_Contraption \o <<" ">>
Str_Contraptions == Str_Contraption \o <<"s">>
Str_Widget == <<"W", "i", "d", "g", "e", "t">>
Str_item == <<"i", "t", "e", "m">>
Str_Qty == <<"Q", "t", "y">>

Amt_1000 == <<"$", "1", ",", "0", "0", "0", ".", "0", "0">>
Amt_50 == <<"$", "5", "0">>
Amt_250_50 == <<"$", "2", "5", "0", ".", "5", "0">>
Amt_bad == <<"b", "a", "d">>
Amt_NA == <<"N", "/", "A">>

ItemCells == {Str_Contraption, Str_contraption, Str_LeadingSpace, Str_TrailingSpace,
              Str_Contraptions, Str_Widget, Str_Empty, None}

TotalCells == {Amt_1000, Amt_50, Amt_250_50, Amt_bad, Amt_NA, Str_Empty, None}

SeqsUpTo(S, n) == UNION {[1 .. k -> S] : k \in 0 .. n}

\* Data rows under the header <<"Item", "Total">>.
RichRows == {<<Str_Contraption, t>> : t \in TotalCells} \cup {<<i, Amt_250_50>> : i \in ItemCells}

RichTables == {<<<<Str_Item, Str_Total>>>> \o rows : rows \in SeqsUpTo(RichRows, MaxRows)}

\* The scenario of the specification: 1000.00 + 250.50, the Widget row left out.
ScenarioTable ==
    <<<<Str_Item, Str_Total>>, <<Str_Contraption, Amt_1000>>, <<Str_Widget, Amt_50>>,
      <<Str_Contraption, Amt_250_50>>>>

\* Tables with other header rows.  extract_tables gives every row of a table
\* the same number of cells, a cell without text being None.
OtherTables ==
    {ScenarioTable,
     <<<<Str_Total, Str_Item>>, <<Amt_250_50, Str_Contraption>>, <<Amt_50, Str_Widget>>>>,
     <<<<Str_item, Str_Total>>, <<Str_Contraption, Amt_250_50>>>>,
     <<<<Str_Item, Str_Qty>>, <<Str_Contraption, Amt_250_50>>>>,
     <<<<Str_Qty, Str_Total>>, <<Str_Contraption, Amt_250_50>>>>,
     <<<<None, Str_Total>>, <<Str_Contraption, Amt_250_50>>>>,
     <<<<Str_Item, Str_Qty, Str_Total>>, <<Str_Contraption, Amt_50, Amt_250_50>>,
       <<Str_Contraption, Amt_50, Amt_bad>>>>,
     <<<<Str_Item, Str_Total, Str_Total>>, <<Str_Contraption, Amt_250_50, Amt_250_50>>>>,
     <<<<Str_Item, Str_Total, Str_Total>>>>,
     <<<<Str_Qty, Str_Total, Str_Total>>, <<Str_Contraption, Amt_250_50, Amt_250_50>>>>}

\* The tables of the multi-table documents: two invoices with different sums
\* and a table without the required columns.
GoodTable == <<<<Str_Item, Str_Total>>, <<Str_Contraption, Amt_250_50>>>>
OtherGoodTable == <<<<Str_Item, Str_Total>>, <<Str_Contraption, Amt_1000>>>>
BadTable == <<<<Str_item, Str_Qty>>, <<Str_Contraption, Amt_250_50>>>>

SmallTables == {GoodTable, OtherGoodTable, BadTable}

\* A parsed document is its pages, each page the tables extract_tables finds.
Doc(pages) == [valid |-> TRUE, pages |-> pages]

Malformed == [valid |-> FALSE, pages |-> <<>>]

PageChoices ==
    {<<>>} \cup {<<t>> : t \in SmallTables} \cup {<<t, u>> : t \in SmallTables, u \in SmallTables}

LayoutDocs == {Doc(ps) : ps \in SeqsUpTo(PageChoices, MaxPages)}

Docs == {Malformed} \cup LayoutDocs \cup {Doc(<<<<t>>>>) : t \in RichTables \cup OtherTables}

Request(ct, d) == [content_type |-> ct, doc |-> d]

NoRequest == Request("", Malformed)

OtherTypes == {"text/plain", "application/octet-stream", "Application/PDF", "image/png"}

Requests ==
    {Request("application/pdf", d) : d \in Docs}
    \cup {Request(ct, d) : ct \in OtherTypes,
                           d \in {Malformed, Doc(<<>>), Doc(<<<<GoodTable>>>>), Doc(<<<<BadTable>>>>)}}

\* The requests of the concurrent specification.
ConcRequests ==
    {Request("application/pdf", d) :
        d \in {Malformed, Doc(<<<<>>>>), Doc(<<<<GoodTable>>>>), Doc(<<<<BadTable>>>>),
               Doc(<<<<GoodTable, OtherGoodTable>>>>), Doc(<<<<BadTable, GoodTable>>>>),
               Doc(<<<<>>, <<GoodTable>>>>), Doc(<<<<OtherGoodTable>>, <<GoodTable>>>>)}}
    \cup {Request("text/plain", Doc(<<<<GoodTable>>>>))}

\* ------------------------------------------------------------------- state
VARIABLES
    pc,              \* per slot: the step the handler executes next
    req,             \* per slot: the request (declared content type, uploaded bytes)
    pdf_bytes,       \* per slot: line 37
    pdf,             \* per slot: line 42, the pages of the opened document
    all_tables,      \* per slot: line 41
    df,              \* per slot: line 54
    contraption_df,  \* per slot: lines 62-70
    total_sum,       \* per slot: line 73
    exc,             \* per slot: the exception raised inside the try block
    trace,           \* per slot: the steps the handler has executed, in order
    response,        \* per slot: the responses sent for the request
    running          \* the slot whose handler holds the event loop, 0 when free

vars == <<pc, req, pdf_bytes, pdf, all_tables, df, contraption_df, total_sum, exc,
          trace, response, running>>

\* The steps of analyze_invoice in program order (lines 32, 37, 42, 43-46,
\* 48, 54, 58, 62, 65-70, 73, 76).
StepOrder ==
    <<"content_type", "read", "parse", "extract", "presence", "frame", "columns",
      "filter", "clean", "sum", "respond">>

StepIndex(step) == CHOOSE i \in 1 .. Len(StepOrder) : StepOrder[i] = step

Succ(step) ==
    IF StepIndex(step) = Len(StepOrder) THEN "done" ELSE StepOrder[StepIndex(step) + 1]

\* Control flow inside the try block (lines 35, 78): a step that raises
\* transfers control to the except clause, otherwise the next step follows.
AfterStepNoStop(step, failed) == Succ(step)

AfterStep(step, failed) == IF failed THEN "except" ELSE Succ(step)

NoBytes == [read |-> FALSE, bytes |-> Malformed]

\* Line 37: await file.read() returns the bytes uploaded with this request.
file_read_shared(r) ==
    LET other == (r % NumSlots) + 1
    IN  IF req[other] # NoRequest THEN req[other].doc ELSE req[r].doc

file_read(r) == req[r].doc

\* Line 41: all_tables = []
new_all_tables(r) == <<>>

Init ==
    /\ pc = [r \in Slots |-> "idle"]
    /\ req = [r \in Slots |-> NoRequest]
    /\ pdf_bytes = [r \in Slots |-> NoBytes]
    /\ pdf = [r \in Slots |-> <<>>]
    /\ all_tables = [r \in Slots |-> <<>>]
    /\ df = [r \in Slots |-> NoFrame]
    /\ contraption_df = [r \in Slots |-> NoFiltered]
    /\ total_sum = [r \in Slots |-> NoSum]
    /\ exc = [r \in Slots |-> NoExc]
    /\ trace = [r \in Slots |-> <<>>]
    /\ response = [r \in Slots |-> <<>>]
    /\ running = 0

Log(r, step) == trace' = [trace EXCEPT ![r] = Append(@, step)]

\* Line 26: a request arrives at a free slot and an invocation of the handler
\* starts; its local variables are not bound yet.
ReceiveFrom(r, R) ==
    /\ pc[r] = "idle"
    /\ \E q \in R : req' = [req EXCEPT ![r] = q]
    /\ pc' = [pc EXCEPT ![r] = "content_type"]
    /\ UNCHANGED <<pdf_bytes, pdf, all_tables, df, contraption_df, total_sum, exc,
                   trace, response, running>>

Receive(r) == ReceiveFrom(r, Requests)

ReceiveConc(r) == ReceiveFrom(r, ConcRequests)

\* Lines 32-33, outside the try block: a wrong declared type is answered 400
\* at once; otherwise the handler reaches "await file.read()" and is suspended.
CheckContentType(r) ==
    /\ pc[r] = "content_type"
    /\ running = 0
    /\ Log(r, "content_type")
    /\ IF ContentTypeOk(req[r].content_type)
       THEN /\ pc' = [pc EXCEPT ![r] = Succ("content_type")]
            /\ UNCHANGED response
       ELSE /\ pc' = [pc EXCEPT ![r] = "done"]
            /\ response' = [response EXCEPT ![r] = Append(@, InvalidFileType)]
    /\ UNCHANGED <<req, pdf_bytes, pdf, all_tables, df, contraption_df, total_sum, exc, running>>

\* Lines 37-38: the handler resumes with the uploaded bytes and holds the
\* event loop until it has answered.
ReadBody(r) ==
    /\ pc[r] = "read"
    /\ running = 0
    /\ Log(r, "read")
    /\ pdf_bytes' = [pdf_bytes EXCEPT ![r] = [read |-> TRUE, bytes |-> file_read(r)]]
    /\ pc' = [pc EXCEPT ![r] = AfterStep("read", FALSE)]
    /\ running' = r
    /\ UNCHANGED <<req, pdf, all_tables, df, contraption_df, total_sum, exc, response>>

\* Line 42: pdfplumber.open(pdf_stream)
OpenPdf(r) ==
    /\ pc[r] = "parse"
    /\ running = r
    /\ Log(r, "parse")
    /\ LET res == open_pdf(pdf_bytes[r].bytes)
       IN  /\ pdf' = [pdf EXCEPT ![r] = res.val]
           /\ exc' = [exc EXCEPT ![r] = res.exc]
           /\ pc' = [pc EXCEPT ![r] = AfterStep("parse", ~res.ok)]
    /\ UNCHANGED <<req, pdf_bytes, all_tables, df, contraption_df, total_sum, response, running>>

\* Lines 41-46: the loop over the pages.
ExtractTables(r) ==
    /\ pc[r] = "extract"
    /\ running = r
    /\ Log(r, "extract")
    /\ all_tables' = [all_tables EXCEPT ![r] = extract_all(new_all_tables(r), pdf[r])]
    /\ pc' = [pc EXCEPT ![r] = AfterStep("extract", FALSE)]
    /\ UNCHANGED <<req, pdf_bytes, pdf, df, contraption_df, total_sum, exc, response, running>>

\* Lines 48-49: the HTTPException is raised inside the try block.
CheckTables(r) ==
    /\ pc[r] = "presence"
    /\ running = r
    /\ Log(r, "presence")
    /\ LET res == check_tables(all_tables[r])
       IN  /\ exc' = [exc EXCEPT ![r] = res.exc]
           /\ pc' = [pc EXCEPT ![r] = AfterStep("presence", ~res.ok)]
    /\ UNCHANGED <<req, pdf_bytes, pdf, all_tables, df, contraption_df, total_sum, response, running>>

\* Line 54.
BuildFrame(r) ==
    /\ pc[r] = "frame"
    /\ running = r
    /\ Log(r, "frame")
    /\ LET res == DataFrame(FirstTable(all_tables[r]))
       IN  /\ df' = [df EXCEPT ![r] = IF res.ok THEN res.val ELSE @]
           /\ exc' = [exc EXCEPT ![r] = res.exc]
           /\ pc' = [pc EXCEPT ![r] = AfterStep("frame", ~res.ok)]
    /\ UNCHANGED <<req, pdf_bytes, pdf, all_tables, contraption_df, total_sum, response, running>>

\* Lines 58-59: the HTTPException is raised inside the try block.
CheckColumns(r) ==
    /\ pc[r] = "columns"
    /\ running = r
    /\ Log(r, "columns")
    /\ LET res == check_columns(df[r])
       IN  /\ exc' = [exc EXCEPT ![r] = res.exc]
           /\ pc' = [pc EXCEPT ![r] = AfterStep("columns", ~res.ok)]
    /\ UNCHANGED <<req, pdf_bytes, pdf, all_tables, df, contraption_df, total_sum, response, running>>

\* Line 62.
FilterRows(r) ==
    /\ pc[r] = "filter"
    /\ running = r
    /\ Log(r, "filter")
    /\ contraption_df' = [contraption_df EXCEPT ![r] = filter_rows(df[r])]
    /\ pc' = [pc EXCEPT ![r] = AfterStep("filter", FALSE)]
    /\ UNCHANGED <<req, pdf_bytes, pdf, all_tables, df, total_sum, exc, response, running>>

\* Lines 65-70.
CleanTotals(r) ==
    /\ pc[r] = "clean"
    /\ running = r
    /\ Log(r, "clean")
    /\ LET res == clean_totals(contraption_df[r])
       IN  /\ contraption_df' = [contraption_df EXCEPT ![r] = IF res.ok THEN res.val ELSE @]
           /\ exc' = [exc EXCEPT ![r] = res.exc]
           /\ pc' = [pc EXCEPT ![r] = AfterStep("clean", ~res.ok)]
    /\ UNCHANGED <<req, pdf_bytes, pdf, all_tables, df, total_sum, response, running>>

\* Line 73.
SumTotals(r) ==
    /\ pc[r] = "sum"
    /\ running = r
    /\ Log(r, "sum")
    /\ total_sum' = [total_sum EXCEPT ![r] = series_sum(contraption_df[r].total)]
    /\ pc' = [pc EXCEPT ![r] = AfterStep("sum", FALSE)]
    /\ UNCHANGED <<req, pdf_bytes, pdf, all_tables, df, contraption_df, exc, response, running>>

\* Line 76: the response is built, and rendered, inside the try block.
Respond(r) ==
    /\ pc[r] = "respond"
    /\ running = r
    /\ Log(r, "respond")
    /\ LET res == json_response(total_sum[r])
       IN  /\ exc' = [exc EXCEPT ![r] = res.exc]
           /\ pc' = [pc EXCEPT ![r] = AfterStep("respond", ~res.ok)]
           /\ response' = [response EXCEPT ![r] = IF res.ok THEN Append(@, res.val) ELSE @]
           /\ running' = IF res.ok THEN 0 ELSE running
    /\ UNCHANGED <<req, pdf_bytes, pdf, all_tables, df, contraption_df, total_sum>>

\* Lines 78-80.
HandleException(r) ==
    /\ pc[r] = "except"
    /\ running = r
    /\ response' = [response EXCEPT ![r] = Append(@, handle_exception(exc[r]))]
    /\ pc' = [pc EXCEPT ![r] = "done"]
    /\ running' = 0
    /\ UNCHANGED <<req, pdf_bytes, pdf, all_tables, df, contraption_df, total_sum, exc, trace>>

\* Lines 33, 76, 80: the invocation has ended with its response; the response
\* is delivered, the local variables of the invocation are gone and the slot
\* is free for the next request.
Close(r) ==
    /\ pc[r] = "done"
    /\ pc' = [pc EXCEPT ![r] = "idle"]
    /\ req' = [req EXCEPT ![r] = NoRequest]
    /\ pdf_bytes' = [pdf_bytes EXCEPT ![r] = NoBytes]
    /\ pdf' = [pdf EXCEPT ![r] = <<>>]
    /\ all_tables' = [all_tables EXCEPT ![r] = <<>>]
    /\ df' = [df EXCEPT ![r] = NoFrame]
    /\ contraption_df' = [contraption_df EXCEPT ![r] = NoFiltered]
    /\ total_sum' = [total_sum EXCEPT ![r] = NoSum]
    /\ exc' = [exc EXCEPT ![r] = NoExc]
    /\ trace' = [trace EXCEPT ![r] = <<>>]
    /\ response' = [response EXCEPT ![r] = <<>>]
    /\ UNCHANGED running

\* One step of the handler of slot r.
Handler(r) ==
    \/ CheckContentType(r)
    \/ ReadBody(r)
    \/ OpenPdf(r)
    \/ ExtractTables(r)
    \/ CheckTables(r)
    \/ BuildFrame(r)
    \/ CheckColumns(r)
    \/ FilterRows(r)
    \/ CleanTotals(r)
    \/ SumTotals(r)
    \/ Respond(r)
    \/ HandleException(r)

\* One request at a time, over the whole input domain.
Next == Receive(1) \/ Handler(1) \/ Close(1)

Spec == Init /\ [][Next]_vars

\* Requests in flight in every slot.
NextConc == \E r \in Slots : ReceiveConc(r) \/ Handler(r) \/ Close(r)

SpecConc == Init /\ [][NextConc]_vars

\* ------------------------------------------------------------- properties
Done(r) == pc[r] = "done"

\* The response of a finished request.
Resp(r) == response[r][1]

IsPdf(r) == req[r].content_type = "application/pdf"

Executed(r, step) == \E i \in 1 .. Len(trace[r]) : trace[r][i] = step

\* The document has a table on some page.
HasTables(d) == d.valid /\ \E i \in 1 .. Len(d.pages) : d.pages[i] # <<>>

\* The first table of the first page that has a table.
FirstTableOfDoc(d) ==
    LET first == CHOOSE i \in 1 .. Len(d.pages) :
                    /\ d.pages[i] # <<>>
                    /\ \A j \in 1 .. i - 1 : d.pages[j] = <<>>
    IN  d.pages[first][1]

HeaderHas(table, label) == \E j \in 1 .. Len(table[1]) : table[1][j] = label

\* What the amounts of the input domain are worth, in units of 10^-Scale;
\* "bad", "N/A", the empty string and an absent cell are worth nothing.
AmountValue(cell) ==
    CASE cell = Amt_1000 -> 1000 * Pow10(Scale)
      [] cell = Amt_50 -> 50 * Pow10(Scale)
      [] cell = Amt_250_50 -> 250 * Pow10(Scale) + 5 * Pow10(Scale - 1)
      [] OTHER -> 0

UnparsableCells == {Amt_bad, Amt_NA, Str_Empty, None}

\* The rows of the frame whose "Item" is exactly "Contraption".
ContraptionRows(f) ==
    {i \in 1 .. Len(f.rows) : Cell(f, f.rows[i], Str_Item) = Str_Contraption}

RECURSIVE SumOver(_, _)
SumOver(f, I) ==
    IF I = {} THEN 0
    ELSE LET i == CHOOSE x \in I : TRUE
         IN  AmountValue(Cell(f, f.rows[i], Str_Total)) + SumOver(f, I \ {i})

\* The sum the specification asks for, from the frame of the first table.
ExpectedSum(f) == SumOver(f, ContraptionRows(f))

\* C1: a request declared application/pdf whose PDF has no table on any page
\* is answered 404 with the "no tables found" message.
C1_NoTables404 ==
    \A r \in Slots :
        (Done(r) /\ IsPdf(r) /\ req[r].doc.valid /\ ~HasTables(req[r].doc))
            => /\ Resp(r).status = 404
               /\ Resp(r).detail = "No tables found in the PDF."

\* C2: a request declared application/pdf whose first table has a header row
\* without "Item" or without "Total" is answered 400 with the
\* missing-columns message.
C2_MissingColumns400 ==
    \A r \in Slots :
        (/\ Done(r) /\ IsPdf(r) /\ HasTables(req[r].doc)
         /\ \/ ~HeaderHas(FirstTableOfDoc(req[r].doc), Str_Item)
            \/ ~HeaderHas(FirstTableOfDoc(req[r].doc), Str_Total))
            => /\ Resp(r).status = 400
               /\ Resp(r).detail = "PDF does not contain 'Item' and/or 'Total' columns."

\* C3: a request whose declared content type is not exactly application/pdf
\* is answered 400 "invalid file type" whatever its bytes are, and no later
\* step (read, parse, extraction, checks, sum) runs for it; a request declared
\* application/pdf is never answered with that 400.
C3_DeclaredTypeOnly ==
    \A r \in Slots :
        /\ (req[r] # NoRequest /\ ~IsPdf(r))
              => /\ trace[r] \in {<<>>, <<"content_type">>}
                 /\ pdf_bytes[r] = NoBytes /\ pdf[r] = <<>> /\ all_tables[r] = <<>>
                 /\ df[r] = NoFrame /\ contraption_df[r] = NoFiltered
                 /\ total_sum[r] = NoSum /\ exc[r] = NoExc
                 /\ Done(r) => /\ Len(response[r]) = 1
                               /\ Resp(r).status = 400
                               /\ Resp(r).detail = "Invalid file type. Please upload a PDF."
                               /\ Resp(r).sum = NoSum
        /\ (IsPdf(r) /\ Done(r))
              => Resp(r).detail # "Invalid file type. Please upload a PDF."

\* A PDF with a well-formed invoice table, declared as something else, has
\* been rejected, and the same kind of document declared application/pdf has
\* been answered.
C3_Witness ==
    /\ Done(1)
    /\ req[1] = Request("application/octet-stream", Doc(<<<<GoodTable>>>>))
    /\ Resp(1).status = 400

\* C4: a request that passes the content-type, table-presence and column
\* checks is answered 200 with the sum of the parsable "Total" values of the
\* "Contraption" rows of the first table, 0 when no row qualifies.  (Stated
\* for header rows that name "Total" once; the specification leaves the
\* lookup of a duplicated name open.)
C4_SumOfContraptionTotals ==
    \A r \in Slots :
        (/\ Done(r) /\ Executed(r, "filter")
         /\ Cardinality(ColumnPositions(df[r], Str_Total)) = 1)
            => /\ Resp(r).status = 200
               /\ Resp(r).sum.v = ExpectedSum(df[r])

\* C5: a "Contraption" row whose "Total" does not parse never fails the
\* request: the request is answered 200, the row adds nothing to the sum, and
\* a table whose only "Contraption" rows are such rows gives the sum 0.
C5_UnparsableDropped ==
    \A r \in Slots :
        (/\ Done(r) /\ Executed(r, "filter")
         /\ Cardinality(ColumnPositions(df[r], Str_Total)) = 1
         /\ \E i \in ContraptionRows(df[r]) :
               Cell(df[r], df[r].rows[i], Str_Total) \in UnparsableCells)
            => /\ Resp(r).status = 200
               /\ Resp(r).sum.v = ExpectedSum(df[r])
               /\ Len(contraption_df[r].rows)
                    = Cardinality({i \in ContraptionRows(df[r]) :
                         Cell(df[r], df[r].rows[i], Str_Total) \notin UnparsableCells})
               /\ (\A i \in ContraptionRows(df[r]) :
                      Cell(df[r], df[r].rows[i], Str_Total) \in UnparsableCells)
                     => Resp(r).sum.v = 0

\* A table whose only data row is <<"Contraption", "bad">> has been answered
\* with the sum 0.
C5_Witness ==
    /\ Done(1)
    /\ req[1].doc = Doc(<<<<<<<<Str_Item, Str_Total>>, <<Str_Contraption, Amt_bad>>>>>>>>)
    /\ Resp(1).status = 200
    /\ Resp(1).sum.v = 0

\* C6: a request ends with status 500 exactly when it was declared
\* application/pdf and a failure other than "no tables found" and "missing
\* required columns" occurred, and the detail embeds that failure's message.
C6_CatchAllOnlyForOtherFailures ==
    \A r \in Slots :
        Done(r) =>
            /\ (Resp(r).status = 500)
                  <=> (IsPdf(r) /\ exc[r].type \notin {"none", "HTTPException"})
            /\ (Resp(r).status = 500) => Resp(r).cause.msg = exc[r].msg

\* C7: the response is a function of the request alone: two finished requests
\* with the same declared type and the same bytes carry the same response,
\* whatever their slots handled before and however their handlers were
\* interleaved.
C7_SameRequestSameResponse ==
    \A r1 \in Slots : \A r2 \in Slots :
        (Done(r1) /\ Done(r2) /\ req[r1] = req[r2])
            => /\ Len(response[r1]) = 1
               /\ response[r1] = response[r2]

\* Two slots have finished the same invoice, each with the sum 250.50.
C7_Witness ==
    /\ Done(1) /\ Done(2)
    /\ req[1] = Request("application/pdf", Doc(<<<<GoodTable>>>>))
    /\ req[2] = req[1]
    /\ Resp(1).status = 200 /\ Resp(2).status = 200
    /\ Resp(2).sum.v = AmountValue(Amt_250_50)

IsPrefix(s, t) == Len(s) <= Len(t) /\ \A i \in 1 .. Len(s) : s[i] = t[i]

\* The exception the step raises from the local variables it reads.
StepFailure(r, step) ==
    CASE step = "parse" -> open_pdf(pdf_bytes[r].bytes).exc
      [] step = "presence" -> check_tables(all_tables[r]).exc
      [] step = "frame" -> DataFrame(all_tables[r][1]).exc
      [] step = "columns" -> check_columns(df[r]).exc
      [] step = "clean" -> clean_totals(contraption_df[r]).exc
      [] step = "respond" -> json_response(total_sum[r]).exc
      [] OTHER -> NoExc

\* The state part of C8.
C8_OneOutcomeInOrder ==
    \A r \in Slots :
        \* the steps run in the fixed order, each at most once
        /\ IsPrefix(trace[r], StepOrder)
        \* no step runs after a failure: only the except clause follows
        /\ exc[r] # NoExc
              => /\ pc[r] \in {"except", "done"}
                 /\ exc[r] = StepFailure(r, trace[r][Len(trace[r])])
        \* exactly one outcome, and only at the end
        /\ Len(response[r]) = IF Done(r) THEN 1 ELSE 0
        /\ Done(r)
              => \/ /\ Resp(r).status = 200
                    /\ trace[r] = StepOrder
                    /\ exc[r] = NoExc
                    /\ Resp(r).sum = total_sum[r]
                    /\ total_sum[r].v = ExpectedSum(df[r])
                 \/ /\ Resp(r).status # 200
                    /\ Resp(r).sum = NoSum
                    /\ IF IsPdf(r)
                       THEN exc[r] # NoExc /\ Resp(r).cause = StrExc(exc[r])
                       ELSE trace[r] = <<"content_type">>
        \* the earliest failing step decides: the declared type before the
        \* bytes, the column check before the cleaning of a duplicated "Total"
        /\ (Done(r) /\ ~IsPdf(r)) => Resp(r).status = 400
        /\ (Done(r) /\ IsPdf(r) /\ HasTables(req[r].doc)
              /\ ~HeaderHas(FirstTableOfDoc(req[r].doc), Str_Item))
              => Resp(r).cause.code = 400

\* A step of a handler in progress logs itself, in program order, unless it
\* is the except clause; once a step has failed no further step is logged
\* for the request.
C8_StepNext ==
    \A r \in Slots :
        (pc[r] \notin {"idle", "done"} /\ pc'[r] # pc[r])
            => /\ req'[r] = req[r]
               /\ IF pc[r] = "except"
                  THEN trace'[r] = trace[r] /\ pc'[r] = "done"
                  ELSE /\ exc[r] = NoExc
                       /\ trace'[r] = Append(trace[r], pc[r])
                       /\ pc'[r] \in {Succ(pc[r]), "except", "done"}

\* The handler in progress in slot r has a step it can take: it is a step of
\* the handler, and the event loop is free for it or held by it.
CanStep(r) ==
    /\ pc[r] = "except" \/ \E i \in 1 .. Len(StepOrder) : StepOrder[i] = pc[r]
    /\ running = IF pc[r] \in {"content_type", "read"} THEN 0 ELSE r

\* C8: a request runs the steps of the handler in their fixed order, runs no
\* step after one has failed and none twice, and ends with exactly one
\* outcome, the 200 with the complete sum or one error response decided by
\* the earliest failing step; a handler in progress always has its next step
\* to take, so it ends after at most one pass over the steps.
C8_Pipeline ==
    /\ []C8_OneOutcomeInOrder
    /\ [](\A r \in Slots : pc[r] \notin {"idle", "done"} => CanStep(r))
    /\ [][C8_StepNext]_vars

\* A request whose first table lacks "Item" and names "Total" twice has ended
\* at the column check, and the later steps did not run.
C8_Witness ==
    /\ Done(1)
    /\ req[1].doc = Doc(<<<<<<<<Str_Qty, Str_Total, Str_Total>>,
                             <<Str_Contraption, Amt_250_50, Amt_250_50>>>>>>>>)
    /\ trace[1] = SubSeq(StepOrder, 1, StepIndex("columns"))
    /\ Len(response[1]) = 1

\* C9: only the first table in page order decides the outcome: documents
\* with the same first table get the same response whatever follows it, a
\* first table without "Item" or "Total" fails the request even when a later
\* table has both, and pages without tables do not end the scan.
C9_FirstTableOnly ==
    /\ \A r1 \in Slots : \A r2 \in Slots :
          (/\ Done(r1) /\ Done(r2) /\ IsPdf(r1) /\ IsPdf(r2)
           /\ HasTables(req[r1].doc) /\ HasTables(req[r2].doc)
           /\ FirstTableOfDoc(req[r1].doc) = FirstTableOfDoc(req[r2].doc))
              => response[r1] = response[r2]
    /\ \A r \in Slots :
          (Done(r) /\ IsPdf(r) /\ HasTables(req[r].doc))
              => /\ Resp(r).cause.msg # "No tables found in the PDF."
                 /\ (\/ ~HeaderHas(FirstTableOfDoc(req[r].doc), Str_Item)
                     \/ ~HeaderHas(FirstTableOfDoc(req[r].doc), Str_Total))
                       => Resp(r).status # 200

\* One slot has finished a document whose first table lacks the columns and
\* whose second table has them, the other a document whose table comes after
\* a page without tables.
C9_Witness ==
    /\ Done(1) /\ Done(2)
    /\ req[1] = Request("application/pdf", Doc(<<<<BadTable, GoodTable>>>>))
    /\ Resp(1).status # 200
    /\ req[2] = Request("application/pdf", Doc(<<<<>>, <<GoodTable>>>>))
    /\ Resp(2).status = 200

NearMissCells ==
    {Str_contraption, Str_LeadingSpace, Str_TrailingSpace, Str_Contraptions, Str_Empty, None}

\* C10: rows are selected by exact, case-sensitive equality without trimming:
\* every selected row has the "Item" cell "Contraption", a row whose "Item"
\* is "contraption", " Contraption", "Contraption ", "Contraptions", empty or
\* absent is never selected, and the sum is the sum over the rows whose
\* "Item" is exactly "Contraption" whatever the "Total" of the others.
C10_ExactItemMatch ==
    \A r \in Slots :
        /\ Executed(r, "filter")
              => /\ \A i \in 1 .. Len(contraption_df[r].rows) :
                       LET item == Cell(contraption_df[r], contraption_df[r].rows[i], Str_Item)
                       IN  item = Str_Contraption /\ item \notin NearMissCells
                 /\ Len(contraption_df[r].rows) <= Cardinality(ContraptionRows(df[r]))
                 /\ pc[r] = "clean"
                       => Len(contraption_df[r].rows) = Cardinality(ContraptionRows(df[r]))
        /\ Executed(r, "sum") => total_sum[r].v = ExpectedSum(df[r])

\* The sum has been taken of a table with a "Contraption" row and a row whose
\* "Item" is " Contraption", and only the first was counted.
C10_Witness ==
    /\ Executed(1, "sum")
    /\ df[1].rows = <<<<Str_Contraption, Amt_1000>>, <<Str_LeadingSpace, Amt_250_50>>>>
    /\ total_sum[1].v = AmountValue(Amt_1000)

====
